---------------------------- MODULE Spec2Model ----------------------------
(***************************************************************************)
(* State-machine model of the go-tsunami server (protocol/server/server.go)*)
(*                                                                         *)
(* Processes: one session per accepted TCP connection (handleConnection /  *)
(* handleCommands), one streaming task per successful GET (the goroutine   *)
(* running startFileTransmission).  Shared state: the registry             *)
(* Server.transmissions and the transmissionState objects, each with its   *)
(* own mutex, file handle (with a shared read position) and UDP sender.    *)
(*                                                                         *)
(* Granularity.  A step is one access to a shared object: a registry       *)
(* critical section (create / get / remove, each under transmissionsMutex),*)
(* a file access (seek+read) or a UDP write.  Acquiring the state mutex is *)
(* merged with the file access that follows it, releasing it with the UDP  *)
(* write that precedes it; the holder is kept in ts[s].mutex in between.   *)
(*                                                                         *)
(* File handles behave like os.File (the default os.DirFS collaborator):   *)
(* Seek and Read on a closed handle fail.  Write on a closed UDPConn fails.*)
(***************************************************************************)
EXTENDS Integers, Sequences, FiniteSets, TLC

\* ------------------------------------------------------------------ bounds

\* GETs that spawn a streaming task, over the whole run (task / state ids).
MaxGets == 2
\* Command lines the sessions read, over the whole run; afterwards they can
\* only finish the handler they are in and disconnect.
MaxCmds == 2

\* Width in bits of the unsigned words of the model (uint64 in the source,
\* scaled down); file sizes and block sizes of the small system are far below.
WordBits == 5
Word == 2 ^ WordBits

Conns == {1, 2}
IPs == {"ipA", "ipB"}
\* Connection 1 always comes from ipA; connection 2 from either address
\* (the same-address case is the one the integration tests exercise).
AddrOf(c) == IF c = 1 THEN {"ipA"} ELSE IPs

\* The served filesystem (fstest.MapFS in the tests): name -> contents.
Files == [f3 |-> <<11, 12, 13>>, f0 |-> << >>]
FileNames == DOMAIN Files
\* A name GetFileSize cannot open.
NoFile == "nofile"
BlockSizes == {2}
BlockIndexes == 0 .. 2

Ids == 1 .. MaxGets

Min(a, b) == IF a < b THEN a ELSE b

\* ------------------------------------------------------------------ state

VARIABLES
    registry,   \* Server.transmissions: client IP -> state id, 0 = no entry
    ts,         \* transmissionState objects, by id
    task,       \* streaming goroutines (startFileTransmission), by id
    sess,       \* clientSession / handleCommands, by connection
    nextId,     \* number of goroutines spawned so far
    ncmd,       \* number of command lines read so far
    listen,     \* the listener and the accept loop of Server.Listen
    wire        \* a command value or line passing through the wire codec

vars == <<registry, ts, task, sess, nextId, ncmd, listen, wire>>

NoHolder == [kind |-> "none", id |-> 0]
TaskHolder(t) == [kind |-> "task", id |-> t]
SessHolder(c) == [kind |-> "sess", id |-> c]

\* transmissionState (server.go:17-26) before createTransmissionState built it.
NoState ==
    [made |-> FALSE, ip |-> "", filename |-> "", blockSize |-> 0,
     totalBlocks |-> 0, sentBlocks |-> {}, pos |-> 0,
     fileOpen |-> FALSE, udpOpen |-> FALSE, mutex |-> NoHolder,
     udp |-> << >>, disturbed |-> FALSE]

NoTask ==
    [pc |-> "none", conn |-> 0, ip |-> "", filename |-> "", blockSize |-> 0,
     blockIndex |-> 0, buffer |-> << >>, result |-> "", okFlushed |-> FALSE]

NoCmd == [op |-> "NONE", filename |-> "", blockSize |-> 0, blockIndex |-> 0]

NoSession ==
    [pc |-> "init", ip |-> "", cmd |-> NoCmd, cur |-> 0,
     currentBlock |-> 0, buffer |-> << >>, reply |-> << >>, hsent |-> << >>,
     sent0 |-> {}]

\* The listener as NewServer receives it, and Listen about to call Accept.
\* err is the error Accept returns once the listener has been closed,
\* closedSeen whether Accept has returned it, logged whether Listen has
\* logged "Failed to accept connection".
OpenListener ==
    [open |-> TRUE, err |-> "none", pc |-> "accept", closedSeen |-> FALSE,
     logged |-> FALSE]

\* No call of the codec under way.
NoValue == [type |-> "NONE", text |-> << >>, a |-> 0, b |-> 0]
NoResult == [ok |-> FALSE, cmd |-> NoValue, err |-> "none"]
NoWire ==
    [variant |-> "none", phase |-> "idle", value |-> NoValue, line |-> << >>,
     as |-> "", result |-> NoResult]

Init ==
    /\ wire = NoWire
    /\ listen = OpenListener
    /\ registry = [a \in IPs |-> 0]
    /\ ts = [s \in Ids |-> NoState]
    /\ task = [t \in Ids |-> NoTask]
    /\ sess = [c \in Conns |-> NoSession]
    /\ nextId = 0
    /\ ncmd = 0


\* ---------------------------------------------------------------- helpers

\* fileInfo.Size() of an existing file (server.go:113-117, 441-447).
FileSize(f) == Len(Files[f])

\* Mutant of TotalBlocks: the division without the round-up term.
TotalBlocksFloor(size, bs) == size \div bs

\* totalBlocks := (fileSize + cmd.Blocksize - 1) / cmd.Blocksize, in uint64:
\* the sum wraps around at the word size before the division.
TotalBlocks(size, bs) == ((size + bs - 1) % Word) \div bs

\* fileHandle.Read(buffer) with len(buffer) = bs at read position pos: the
\* bytes from pos up to the end of the file, at most bs of them.
ReadAt(f, pos, bs) == SubSeq(Files[f], pos + 1, Min(pos + bs, FileSize(f)))

\* Mutant of OutOfRange: the comparison is strict.
OutOfRangeStrict(blockIndex, total) == blockIndex > total

\* retransmitBlock / restartFromBlock: if blockIndex >= ts.totalBlocks.
OutOfRange(blockIndex, total) == blockIndex >= total

\* Mutant of SeekOffset: the block index used as the byte offset.
SeekOffsetUnscaled(blockIndex, bs) == blockIndex

\* offset := int64(blockIndex * ts.blockSize), the Seek target of
\* retransmitBlock and restartFromBlock.
SeekOffset(blockIndex, bs) == blockIndex * bs

\* Mutant of ClearFrom: the whole map is reset.
ClearAll(sent, blockIndex, total) == {}

\* restartFromBlock: for i := blockIndex; i < totalBlocks; i++ { delete(sentBlocks, i) }
ClearFrom(sent, blockIndex, total) == sent \ (blockIndex .. total - 1)

\* The datagram built from blockIndex and buffer[:n]: the 8-byte big-endian
\* index followed by the payload ("by" records which loop wrote it).
BlockPacket(blockIndex, data, by) ==
    [idx |-> blockIndex, data |-> data, by |-> by]

OkReply(size) == [kind |-> "OK", msg |-> "", size |-> size]
ErrReply(msg) == [kind |-> "ERR", msg |-> msg, size |-> 0]

\* Mutant of WriteFails: a write on a closed UDP sender still goes out.
WriteNeverFails(s) == FALSE

\* udpConn.Write(packet) returns an error: the sender has been closed.
WriteFails(s) == ~ts[s].udpOpen

\* Mutant of MutexFree: the lock is entered without waiting for its holder.
MutexIgnored(st) == TRUE

\* state.mutex.Lock() / ts.mutex.Lock() can return: nobody holds the lock.
MutexFree(st) == st.mutex = NoHolder

Running(t) == task[t].pc \in {"create", "loop", "send"}

\* ---------------------------------------------------------------- registry

\* getTransmissionState: the registry entry of a client IP, 0 for nil.
getTransmissionState(a) == registry[a]

\* removeTransmissionState, the state objects afterwards: the entry's file
\* handle and UDP sender are closed (without taking the state mutex).
RemoveCloses(a) ==
    IF registry[a] # 0
    THEN [ts EXCEPT ![registry[a]].fileOpen = FALSE,
                    ![registry[a]].udpOpen = FALSE,
                    ![registry[a]].disturbed = @ \/ Running(registry[a])]
    ELSE ts

\* Mutant of RemoveDeletes: the entry is closed but stays in the map.
RemoveKeeps(a) == registry

\* removeTransmissionState, the registry afterwards: delete(transmissions, ip).
RemoveDeletes(a) == [registry EXCEPT ![a] = 0]

removeTransmissionState(a) ==
    /\ ts' = RemoveCloses(a)
    /\ registry' = RemoveDeletes(a)

\* createTransmissionState, the registry afterwards:
\* s.transmissions[clientIP] = state (an existing entry is overwritten).
CreateInserts(a, s) == [registry EXCEPT ![a] = s]

\* createTransmissionState, the state object it builds.
NewState(a, f, bs) ==
    [made |-> TRUE, ip |-> a, filename |-> f, blockSize |-> bs,
     totalBlocks |-> TotalBlocks(FileSize(f), bs), sentBlocks |-> {},
     pos |-> 0, fileOpen |-> TRUE, udpOpen |-> TRUE, mutex |-> NoHolder,
     udp |-> << >>, disturbed |-> FALSE]

\* ---------------------------------------------------------------- session

\* The goroutine handleGetCommand starts: it has the session's client IP and
\* the GET command.  okFlushed records whether the OK reply of this GET was
\* on the TCP connection when the goroutine was started.
Spawned(c, cmd) ==
    [pc |-> "create", conn |-> c, ip |-> sess[c].ip,
     filename |-> cmd.filename, blockSize |-> cmd.blockSize,
     blockIndex |-> 0, buffer |-> << >>, result |-> "",
     okFlushed |-> \E k \in 1 .. Len(sess[c].reply) :
                      sess[c].reply[k] = OkReply(FileSize(cmd.filename))]

\* Listen accepts a connection and starts handleConnection for it.  The
\* connections are interchangeable, so they are accepted in numerical order.
Accept(c) ==
    /\ listen.open /\ listen.pc = "accept"
    /\ sess[c].pc = "init"
    /\ \A d \in Conns : d < c => sess[d].pc # "init"
    /\ \E a \in AddrOf(c) :
          sess' = [sess EXCEPT ![c].pc = "read", ![c].ip = a]
    /\ UNCHANGED <<listen, wire, registry, ts, task, nextId, ncmd>>

\* handleCommands: scanner.Scan() returned a line that decoded to cmd.
StartCmd(c, cmd) ==
    [sess[c] EXCEPT !.cmd = cmd, !.cur = 0, !.currentBlock = 0,
                    !.buffer = << >>, !.reply = << >>, !.hsent = << >>,
                    !.sent0 = {}]

CanRead(c) == sess[c].pc = "read" /\ ncmd < MaxCmds

\* Mutant of OkFlushed: OK is left in the bufio.Writer, not on the wire.
OkBuffered(c, cmd) == [StartCmd(c, cmd) EXCEPT !.pc = "get_spawn"]

\* handleGetCommand: okCmd.MarshalBinary, writer.Write and writer.Flush.
OkFlushed(c, cmd) ==
    [StartCmd(c, cmd) EXCEPT !.pc = "get_spawn",
                             !.reply = <<OkReply(FileSize(cmd.filename))>>]

\* Mutant of GetFails: the failure is answered with OK 0.
GetFailsOk(c, cmd) == [StartCmd(c, cmd) EXCEPT !.reply = <<OkReply(0)>>]

\* handleGetCommand when GetFileSize fails: return cs.sendError(fileErr.Error())
\* (nothing else is done for this GET).
GetFails(c, cmd) ==
    [StartCmd(c, cmd) EXCEPT !.reply = <<ErrReply("get file size")>>]

\* handleGetCommand up to the flush of the reply: GetFileSize fails -> ERR
\* reply and return; otherwise OK <filesize> is written and flushed.
HandleGet(c) ==
    /\ CanRead(c)
    /\ \E f \in FileNames \cup {NoFile}, bs \in BlockSizes :
          LET cmd == [op |-> "GET", filename |-> f, blockSize |-> bs,
                      blockIndex |-> 0]
          IN  IF f = NoFile
              THEN sess' = [sess EXCEPT ![c] = GetFails(c, cmd)]
              ELSE /\ nextId < MaxGets
                   /\ sess' = [sess EXCEPT ![c] = OkFlushed(c, cmd)]
    /\ ncmd' = ncmd + 1
    /\ UNCHANGED <<listen, wire, registry, ts, task, nextId>>

\* Mutant of AfterSpawn: startFileTransmission is called in the session's
\* own goroutine, which then waits for the stream to end.
AfterSpawnWaits(c) == "get_wait"

\* handleGetCommand after the go statement: return nil, and handleCommands
\* is back at scanner.Scan().
AfterSpawn(c) == "read"

\* handleGetCommand after the flush: go func() { startFileTransmission(cmd) }
\* and return nil.
HandleGetSpawn(c) ==
    /\ sess[c].pc = "get_spawn"
    /\ sess' = [sess EXCEPT ![c].pc = AfterSpawn(c), ![c].cur = nextId + 1]
    /\ task' = [task EXCEPT ![nextId + 1] = Spawned(c, sess[c].cmd)]
    /\ nextId' = nextId + 1
    /\ UNCHANGED <<listen, wire, registry, ts, ncmd>>

\* Mutant of NoActiveTransmission: the handler returns without a reply.
NoActiveSilent(c, cmd) == StartCmd(c, cmd)

\* handleRetrCommand / handleRestCommand with transmission == nil:
\* return cs.sendError("No active transmission").
NoActiveTransmission(c, cmd) ==
    [StartCmd(c, cmd) EXCEPT
        !.reply = <<ErrReply("No active transmission")>>]

\* handleRetrCommand / handleRestCommand up to the registry lookup.
HandleLookup(c) ==
    /\ CanRead(c)
    /\ \E op \in {"RETR", "REST"}, i \in BlockIndexes :
          LET cmd == [op |-> op, filename |-> "", blockSize |-> 0,
                      blockIndex |-> i]
              s == getTransmissionState(sess[c].ip)
          IN  IF s = 0
              THEN sess' = [sess EXCEPT ![c] = NoActiveTransmission(c, cmd)]
              ELSE sess' = [sess EXCEPT ![c] =
                       [StartCmd(c, cmd) EXCEPT
                           !.cur = s,
                           !.pc = IF op = "RETR" THEN "retr_lock"
                                                 ELSE "rest_lock"]]
    /\ ncmd' = ncmd + 1
    /\ UNCHANGED <<listen, wire, registry, ts, task, nextId>>

\* The handler of session c returns err: handleRetrCommand / handleRestCommand
\* send "<prefix> failed: <err>" and the session reads its next line.
HandlerFails(c, msg) ==
    [sess[c] EXCEPT !.pc = "read", !.buffer = << >>,
                    !.reply = Append(@, ErrReply(msg))]

\* Mutant of NoData: a read shorter than the buffer counts as no data.
NoDataShort(data, bs) == Len(data) < bs

\* retransmitBlock: if n == 0 { return "no data to retransmit for block" }.
NoData(data, bs) == Len(data) = 0

\* retransmitBlock: ts.mutex.Lock(), the range check, Seek and Read.
RetrLockRead(c) ==
    /\ sess[c].pc = "retr_lock"
    /\ LET s == sess[c].cur
           i == sess[c].cmd.blockIndex
           st == ts[s]
           offset == SeekOffset(i, st.blockSize)
           data == ReadAt(st.filename, offset, st.blockSize)
       IN  /\ MutexFree(st)
           /\ IF OutOfRange(i, st.totalBlocks)
              THEN /\ sess' = [sess EXCEPT ![c] =
                          HandlerFails(c, "Retransmission failed: out of range")]
                   /\ ts' = ts
              ELSE IF ~st.fileOpen
              THEN /\ sess' = [sess EXCEPT ![c] =
                          HandlerFails(c, "Retransmission failed: seek")]
                   /\ ts' = ts
              ELSE IF NoData(data, st.blockSize)
              THEN /\ sess' = [sess EXCEPT ![c] =
                          HandlerFails(c, "Retransmission failed: no data")]
                   /\ ts' = [ts EXCEPT ![s].pos = offset,
                                       ![s].disturbed = @ \/ Running(s)]
              ELSE /\ sess' = [sess EXCEPT ![c].pc = "retr_send",
                                           ![c].buffer = data]
                   /\ ts' = [ts EXCEPT
                          ![s].pos = offset + Len(data),
                          ![s].mutex = SessHolder(c),
                          ![s].disturbed = @ \/ Running(s)]
    /\ UNCHANGED <<listen, wire, registry, task, nextId, ncmd>>

\* retransmitBlock: udpConn.Write, the sentBlocks mark and the deferred Unlock.
RetrSend(c) ==
    /\ sess[c].pc = "retr_send"
    /\ LET s == sess[c].cur
           i == sess[c].cmd.blockIndex
           pkt == BlockPacket(i, sess[c].buffer, "retr")
       IN  IF WriteFails(s)
           THEN /\ sess' = [sess EXCEPT ![c] =
                       HandlerFails(c, "Retransmission failed: send")]
                /\ ts' = [ts EXCEPT ![s].mutex = NoHolder]
           ELSE /\ sess' = [sess EXCEPT ![c].pc = "read",
                                        ![c].buffer = << >>,
                                        ![c].hsent = Append(@, pkt)]
                /\ ts' = [ts EXCEPT ![s].udp = Append(@, pkt),
                                    ![s].sentBlocks = @ \cup {i},
                                    ![s].mutex = NoHolder]
    /\ UNCHANGED <<listen, wire, registry, task, nextId, ncmd>>


\* restartFromBlock: ts.mutex.Lock(), the range check, the sentBlocks
\* clearing loop and the Seek to blockIndex * blockSize.
RestLockSeek(c) ==
    /\ sess[c].pc = "rest_lock"
    /\ LET s == sess[c].cur
           i == sess[c].cmd.blockIndex
           st == ts[s]
           cleared == ClearFrom(st.sentBlocks, i, st.totalBlocks)
       IN  /\ MutexFree(st)
           /\ IF OutOfRange(i, st.totalBlocks)
              THEN /\ sess' = [sess EXCEPT ![c] =
                          HandlerFails(c, "Restart failed: out of range")]
                   /\ ts' = ts
              ELSE IF ~st.fileOpen
              THEN /\ sess' = [sess EXCEPT ![c] =
                          [HandlerFails(c, "Restart failed: seek")
                              EXCEPT !.sent0 = st.sentBlocks]]
                   /\ ts' = [ts EXCEPT ![s].sentBlocks = cleared]
              ELSE /\ sess' = [sess EXCEPT ![c].pc = "rest_read",
                                           ![c].currentBlock = i,
                                           ![c].sent0 = st.sentBlocks]
                   /\ ts' = [ts EXCEPT
                          ![s].sentBlocks = cleared,
                          ![s].pos = SeekOffset(i, st.blockSize),
                          ![s].mutex = SessHolder(c),
                          ![s].disturbed = @ \/ Running(s)]
    /\ UNCHANGED <<listen, wire, registry, task, nextId, ncmd>>

\* restartFromBlock: fileHandle.Read of one loop iteration
\* (currentBlock < totalBlocks here).
RestRead(c) ==
    /\ sess[c].pc = "rest_read"
    /\ LET s == sess[c].cur
           st == ts[s]
           data == ReadAt(st.filename, st.pos, st.blockSize)
       IN  IF ~st.fileOpen
           THEN /\ sess' = [sess EXCEPT ![c] =
                       HandlerFails(c, "Restart failed: read")]
                /\ ts' = [ts EXCEPT ![s].mutex = NoHolder]
           ELSE IF Len(data) = 0
           THEN /\ sess' = [sess EXCEPT ![c].pc = "read"]
                /\ ts' = [ts EXCEPT ![s].mutex = NoHolder]
           ELSE /\ sess' = [sess EXCEPT ![c].pc = "rest_send",
                                        ![c].buffer = data]
                /\ ts' = [ts EXCEPT ![s].pos = @ + Len(data)]
    /\ UNCHANGED <<listen, wire, registry, task, nextId, ncmd>>

\* restartFromBlock: udpConn.Write and the sentBlocks mark of one iteration,
\* then currentBlock++ and the loop condition; when the loop ends the
\* deferred Unlock runs and the handler returns nil.
RestSend(c) ==
    /\ sess[c].pc = "rest_send"
    /\ LET s == sess[c].cur
           k == sess[c].currentBlock
           pkt == BlockPacket(k, sess[c].buffer, "rest")
       IN  IF WriteFails(s)
           THEN /\ sess' = [sess EXCEPT ![c] =
                       HandlerFails(c, "Restart failed: send")]
                /\ ts' = [ts EXCEPT ![s].mutex = NoHolder]
           ELSE /\ sess' = [sess EXCEPT
                       ![c].pc = IF k + 1 < ts[s].totalBlocks
                                 THEN "rest_read" ELSE "read",
                       ![c].buffer = << >>,
                       ![c].currentBlock = k + 1,
                       ![c].hsent = Append(@, pkt)]
                /\ ts' = [ts EXCEPT
                       ![s].udp = Append(@, pkt),
                       ![s].sentBlocks = @ \cup {k},
                       ![s].mutex = IF k + 1 < ts[s].totalBlocks
                                    THEN @ ELSE NoHolder]
    /\ UNCHANGED <<listen, wire, registry, task, nextId, ncmd>>

\* Mutant of DoneSilent: DONE is acknowledged with a reply line.
DoneAcked(c, cmd) == [StartCmd(c, cmd) EXCEPT !.reply = <<OkReply(0)>>]

\* handleDoneCommand returns nil without writing to the connection.
DoneSilent(c, cmd) == StartCmd(c, cmd)

\* handleDoneCommand: remove the registry entry of the client IP; no reply.
HandleDone(c) ==
    /\ CanRead(c)
    /\ sess' = [sess EXCEPT ![c] =
           DoneSilent(c, [op |-> "DONE", filename |-> "", blockSize |-> 0,
                          blockIndex |-> 0])]
    /\ removeTransmissionState(sess[c].ip)
    /\ ncmd' = ncmd + 1
    /\ UNCHANGED <<listen, wire, task, nextId>>

\* First tokens that ParseTcpInstruction rejects (UnmarshalCommand fails).
BadLines == {"BOGUS"}
\* Instructions that decode to a command handleCommand has no case for.
UnsupportedOps == {"OK", "ERR"}

\* Mutant of ParseFails: the session ends on a line that does not decode.
ParseFailsCloses(c, cmd) ==
    [StartCmd(c, cmd) EXCEPT !.pc = "closed",
                             !.reply = <<ErrReply("parse command")>>]

\* handleCommands when UnmarshalCommand fails: sendError(protocolErr.Error())
\* and continue.
ParseFails(c, cmd) ==
    [StartCmd(c, cmd) EXCEPT !.reply = <<ErrReply("parse command")>>]

\* handleCommands reads a line that does not decode.
HandleBadLine(c) ==
    /\ CanRead(c)
    /\ \E l \in BadLines :
          sess' = [sess EXCEPT ![c] =
              ParseFails(c, [op |-> l, filename |-> "", blockSize |-> 0,
                             blockIndex |-> 0])]
    /\ ncmd' = ncmd + 1
    /\ UNCHANGED <<listen, wire, registry, ts, task, nextId>>

\* Mutant of Unsupported: the command is dropped without a reply.
UnsupportedDropped(c, cmd) == StartCmd(c, cmd)

\* handleCommand's default case returns "unsupported command type: %T";
\* handleCommands sends "Command failed: <err>" and continues.
Unsupported(c, cmd) ==
    [StartCmd(c, cmd) EXCEPT
        !.reply = <<ErrReply("Command failed: unsupported command type")>>]

\* handleCommands reads an OK or ERR line sent by the client.
HandleUnsupported(c) ==
    /\ CanRead(c)
    /\ \E op \in UnsupportedOps :
          sess' = [sess EXCEPT ![c] =
              Unsupported(c, [op |-> op, filename |-> "", blockSize |-> 0,
                              blockIndex |-> 0])]
    /\ ncmd' = ncmd + 1
    /\ UNCHANGED <<listen, wire, registry, ts, task, nextId>>

\* The client closes the TCP connection: scanner.Scan() returns false,
\* handleCommands returns and handleConnection's deferred
\* removeTransmissionState(clientIP) runs.
Disconnect(c) ==
    /\ sess[c].pc = "read"
    /\ sess' = [sess EXCEPT ![c] =
           [NoSession EXCEPT !.pc = "closed", !.ip = sess[c].ip]]
    /\ removeTransmissionState(sess[c].ip)
    /\ UNCHANGED <<listen, wire, task, nextId, ncmd>>

\* ------------------------------------------------------------ streaming task

\* Mutant of LoopFrom: the loop counter starts again at 0 after every block.
LoopFromRestart(tk, k, total) ==
    IF k < total
    THEN [tk EXCEPT !.pc = "loop", !.blockIndex = 0, !.buffer = << >>]
    ELSE [tk EXCEPT !.pc = "done", !.blockIndex = k, !.buffer = << >>,
                    !.result = "completed"]

\* startFileTransmission: the for loop's condition with blockIndex = k.  When
\* it is false the task logs "File transmission completed" and returns nil.
LoopFrom(tk, k, total) ==
    IF k < total
    THEN [tk EXCEPT !.pc = "loop", !.blockIndex = k, !.buffer = << >>]
    ELSE [tk EXCEPT !.pc = "done", !.blockIndex = k, !.buffer = << >>,
                    !.result = "completed"]

\* startFileTransmission: createTransmissionState opens the file, dials the
\* UDP sender and stores the new state in the registry.
TaskCreate(t) ==
    /\ task[t].pc = "create"
    /\ LET st == NewState(task[t].ip, task[t].filename, task[t].blockSize)
       IN  /\ ts' = [ts EXCEPT ![t] = st]
           /\ task' = [task EXCEPT ![t] = LoopFrom(task[t], 0, st.totalBlocks)]
    /\ registry' = CreateInserts(task[t].ip, t)
    /\ UNCHANGED <<listen, wire, sess, nextId, ncmd>>

\* startFileTransmission: net.DialUDP fails in createTransmissionState; the
\* file is closed, the error is logged and the goroutine ends.
TaskCreateFails(t) ==
    /\ task[t].pc = "create"
    /\ task' = [task EXCEPT ![t].pc = "done", ![t].result = "create failed"]
    /\ UNCHANGED <<listen, wire, registry, ts, sess, nextId, ncmd>>

\* startFileTransmission: state.mutex.Lock() and fileHandle.Read of one
\* loop iteration (blockIndex < totalBlocks here).
TaskLockRead(t) ==
    /\ task[t].pc = "loop"
    /\ LET st == ts[t]
           data == ReadAt(st.filename, st.pos, st.blockSize)
       IN  /\ MutexFree(st)
           /\ IF ~st.fileOpen
              THEN /\ task' = [task EXCEPT ![t].pc = "done",
                                           ![t].result = "read failed"]
                   /\ ts' = ts
              ELSE IF Len(data) = 0
              THEN /\ task' = [task EXCEPT ![t].pc = "done",
                                           ![t].result = "completed"]
                   /\ ts' = ts
              ELSE /\ task' = [task EXCEPT ![t].pc = "send",
                                           ![t].buffer = data]
                   /\ ts' = [ts EXCEPT ![t].pos = @ + Len(data),
                                       ![t].mutex = TaskHolder(t)]
    /\ UNCHANGED <<listen, wire, registry, sess, nextId, ncmd>>

\* startFileTransmission: udpConn.Write, the sentBlocks mark and
\* state.mutex.Unlock() of one iteration, then blockIndex++ and the loop
\* condition.
TaskSend(t) ==
    /\ task[t].pc = "send"
    /\ LET k == task[t].blockIndex
           pkt == BlockPacket(k, task[t].buffer, "task")
       IN  IF WriteFails(t)
           THEN /\ task' = [task EXCEPT ![t].pc = "done",
                                        ![t].buffer = << >>,
                                        ![t].result = "send failed"]
                /\ ts' = [ts EXCEPT ![t].mutex = NoHolder]
           ELSE /\ task' = [task EXCEPT ![t] =
                       LoopFrom(task[t], k + 1, ts[t].totalBlocks)]
                /\ ts' = [ts EXCEPT ![t].udp = Append(@, pkt),
                                    ![t].sentBlocks = @ \cup {k},
                                    ![t].mutex = NoHolder]
    /\ UNCHANGED <<listen, wire, registry, sess, nextId, ncmd>>

\* -------------------------------------------------------------- the system

Next ==
    \/ \E c \in Conns : Accept(c)
    \/ \E c \in Conns : HandleGet(c)
    \/ \E c \in Conns : HandleGetSpawn(c)
    \/ \E c \in Conns : HandleLookup(c)
    \/ \E c \in Conns : RetrLockRead(c)
    \/ \E c \in Conns : RetrSend(c)
    \/ \E c \in Conns : RestLockSeek(c)
    \/ \E c \in Conns : RestRead(c)
    \/ \E c \in Conns : RestSend(c)
    \/ \E c \in Conns : HandleDone(c)
    \/ \E c \in Conns : HandleBadLine(c)
    \/ \E c \in Conns : HandleUnsupported(c)
    \/ \E c \in Conns : Disconnect(c)
    \/ \E t \in Ids : TaskCreate(t)
    \/ \E t \in Ids : TaskCreateFails(t)
    \/ \E t \in Ids : TaskLockRead(t)
    \/ \E t \in Ids : TaskSend(t)

Spec == Init /\ [][Next]_vars

\* Scheduling: a goroutine that can take a step of its streaming loop, and a
\* session that is inside a RETR / REST / GET handler, is eventually run by
\* the Go scheduler.  Reading the next command line and disconnecting depend
\* on the client and carry no fairness.
TaskStep(t) == TaskCreate(t) \/ TaskLockRead(t) \/ TaskSend(t)

HandlerStep(c) ==
    \/ HandleGetSpawn(c)
    \/ RetrLockRead(c) \/ RetrSend(c)
    \/ RestLockSeek(c) \/ RestRead(c) \/ RestSend(c)

Fairness ==
    /\ \A t \in Ids : WF_vars(TaskStep(t))
    /\ \A c \in Conns : WF_vars(HandlerStep(c))

\* ------------------------------------------------- block count arithmetic
\*
\* createTransmissionState applied to every block size a GET line can carry
\* (any non-zero word): the state right after handleGetCommand has started
\* the goroutine of a GET for an existing file.

WordBlockSizes == 1 .. Word - 1

ArithInit ==
    /\ wire = NoWire
    /\ listen = OpenListener
    /\ registry = [a \in IPs |-> 0]
    /\ ts = [s \in Ids |-> NoState]
    /\ nextId = 1
    /\ ncmd = 1
    /\ \E f \in FileNames, bs \in WordBlockSizes :
          LET cmd == [op |-> "GET", filename |-> f, blockSize |-> bs,
                      blockIndex |-> 0]
              s1 == [NoSession EXCEPT !.pc = "read", !.ip = "ipA",
                                      !.cmd = cmd, !.cur = 1,
                                      !.reply = <<OkReply(FileSize(f))>>]
          IN  /\ sess = [c \in Conns |-> IF c = 1 THEN s1 ELSE NoSession]
              /\ task = [t \in Ids |->
                          IF t = 1
                          THEN [NoTask EXCEPT !.pc = "create", !.conn = 1,
                                              !.ip = "ipA", !.filename = f,
                                              !.blockSize = bs,
                                              !.okFlushed = TRUE]
                          ELSE NoTask]

ArithNext == \E t \in Ids : TaskCreate(t)

ArithSpec == ArithInit /\ [][ArithNext]_vars

\* ------------------------------------------------------------- wire codec
\*
\* Text is modelled as a sequence of items: a word (a maximal run of
\* non-space bytes that is not a decimal number), a decimal number, one
\* space or one newline.  Two neighbouring non-space items never occur: the
\* encoders always put a space between fields.

W(s) == [k |-> "w", s |-> s, n |-> 0]
Num(n) == [k |-> "n", s |-> "", n |-> n]
SP == [k |-> "sp", s |-> " ", n |-> 0]
NL == [k |-> "nl", s |-> "\n", n |-> 0]

IsSpace(it) == it.k \in {"sp", "nl"}

\* strings.TrimSpace
RECURSIVE TrimLeft(_)
TrimLeft(t) == IF t # << >> /\ IsSpace(t[1]) THEN TrimLeft(Tail(t)) ELSE t
RECURSIVE TrimRight(_)
TrimRight(t) ==
    IF t # << >> /\ IsSpace(t[Len(t)])
    THEN TrimRight(SubSeq(t, 1, Len(t) - 1)) ELSE t
TrimSpace(t) == TrimRight(TrimLeft(t))

\* strings.Fields: the non-space runs of the text, in order.
Fields(t) == SelectSeq(t, LAMBDA it : ~IsSpace(it))

\* The text up to (not including) its first newline: the token of
\* bufio.ScanLines, and what fmt.Fscanln reads.
RECURSIVE FirstLine(_)
FirstLine(t) ==
    IF t = << >> \/ t[1].k = "nl" THEN << >>
    ELSE <<t[1]>> \o FirstLine(Tail(t))

\* strings.ToUpper on the words the inputs use.
ToUpper(w) ==
    IF w = "get" THEN "GET" ELSE IF w = "done" THEN "DONE"
    ELSE IF w = "err" THEN "ERR" ELSE w

Instructions == {"GET", "RETR", "OK", "ERR", "REST", "DONE"}

\* The six command variants as one record shape: text is Filename or Msg,
\* a is Blocksize, Filesize or BlockIndex, b is UdpPort.
GetCommand(f, bs, port) == [type |-> "GET", text |-> f, a |-> bs, b |-> port]
OkCommand(size) == [type |-> "OK", text |-> << >>, a |-> size, b |-> 0]
RetrCommand(i) == [type |-> "RETR", text |-> << >>, a |-> i, b |-> 0]
RestCommand(i) == [type |-> "REST", text |-> << >>, a |-> i, b |-> 0]
ErrCommand(msg) == [type |-> "ERR", text |-> msg, a |-> 0, b |-> 0]
DoneCommand == [type |-> "DONE", text |-> << >>, a |-> 0, b |-> 0]

Decoded(cmd) == [ok |-> TRUE, cmd |-> cmd, err |-> "none"]
\* newParseError, newValidationError, newProtocolError (codes parse_error,
\* validation_failed, invalid_format) and errors that are no *ProtocolError.
Failed(code) == [ok |-> FALSE, cmd |-> NoValue, err |-> code]

\* MarshalBinary of the six variants.  Both source variants emit the same
\* bytes: the fields separated by one space, then a newline.
MarshalBinary(c) ==
    CASE c.type = "GET" ->
            <<W("GET"), SP>> \o c.text \o <<SP, Num(c.a), SP, Num(c.b), NL>>
      [] c.type \in {"OK", "RETR", "REST"} -> <<W(c.type), SP, Num(c.a), NL>>
      [] c.type = "ERR" -> <<W("ERR"), SP>> \o c.text \o <<NL>>
      [] OTHER -> <<W("DONE"), NL>>

MaxPort == 65535

\* ---- the variant with validation (package common, unnamed/part_000)

Part000_IsInstruction(it) == it.k = "w" /\ ToUpper(it.s) \in Instructions

Part000_GetUnmarshalBinary(data) ==
    LET parts == Fields(TrimSpace(data))
    IN  IF Len(parts) # 4 THEN Failed("parse")
        ELSE IF ~Part000_IsInstruction(parts[1]) THEN Failed("parse")
        ELSE IF ToUpper(parts[1].s) # "GET" THEN Failed("invalid_format")
        ELSE IF parts[3].k # "n" THEN Failed("parse")
        ELSE IF parts[4].k # "n" THEN Failed("parse")
        ELSE IF parts[3].n = 0 THEN Failed("validation")
        ELSE IF parts[4].n = 0 \/ parts[4].n > MaxPort THEN Failed("validation")
        ELSE Decoded(GetCommand(<<parts[2]>>, parts[3].n, parts[4].n))

\* OkCommand, RetrCommand and RestCommand share one decoder shape.
Part000_NumUnmarshalBinary(type, data) ==
    LET parts == Fields(TrimSpace(data))
    IN  IF Len(parts) # 2 THEN Failed("parse")
        ELSE IF ~Part000_IsInstruction(parts[1]) THEN Failed("parse")
        ELSE IF ToUpper(parts[1].s) # type THEN Failed("invalid_format")
        ELSE IF parts[2].k # "n" THEN Failed("parse")
        ELSE Decoded([type |-> type, text |-> << >>, a |-> parts[2].n, b |-> 0])

Part000_ErrUnmarshalBinary(data) ==
    LET line == TrimSpace(data)
    IN  IF ~(Len(line) >= 2 /\ line[1].k = "w" /\ ToUpper(line[1].s) = "ERR"
                /\ line[2].k = "sp")
        THEN Failed("invalid_format")
        ELSE IF Len(line) <= 2 THEN Failed("validation")
        ELSE Decoded(ErrCommand(TrimSpace(SubSeq(line, 3, Len(line)))))

Part000_DoneUnmarshalBinary(data) ==
    LET parts == Fields(TrimSpace(data))
    IN  IF Len(parts) # 1 THEN Failed("parse")
        ELSE IF ~Part000_IsInstruction(parts[1]) THEN Failed("parse")
        ELSE IF ToUpper(parts[1].s) # "DONE" THEN Failed("invalid_format")
        ELSE Decoded(DoneCommand)

Part000_UnmarshalBinary(type, data) ==
    CASE type = "GET" -> Part000_GetUnmarshalBinary(data)
      [] type \in {"OK", "RETR", "REST"} -> Part000_NumUnmarshalBinary(type, data)
      [] type = "ERR" -> Part000_ErrUnmarshalBinary(data)
      [] OTHER -> Part000_DoneUnmarshalBinary(data)

Part000_UnmarshalCommand(data) ==
    LET parts == Fields(FirstLine(data))
    IN  IF Len(data) = 0 THEN Failed("invalid_format")
        ELSE IF Len(parts) = 0 THEN Failed("invalid_format")
        ELSE IF ~Part000_IsInstruction(parts[1]) THEN Failed("parse")
        ELSE Part000_UnmarshalBinary(ToUpper(parts[1].s), data)

\* ---- the variant without validation (protocol/common/commands.go)

\* ParseTcpInstruction; a failure is a *ParseInstructionError.
CommandsGo_IsInstruction(it) == it.k = "w" /\ ToUpper(it.s) \in Instructions

\* fmt.Fscanln(b, &operands...): the space-separated tokens of the first
\* line; it fails unless there is exactly one token per operand.
CommandsGo_Fscanln(data) == Fields(FirstLine(data))

CommandsGo_GetUnmarshalBinary(data) ==
    LET toks == CommandsGo_Fscanln(data)
    IN  IF Len(toks) # 4 THEN Failed("other")
        ELSE IF toks[3].k # "n" \/ toks[4].k # "n" THEN Failed("other")
        ELSE IF ~CommandsGo_IsInstruction(toks[1]) THEN Failed("other")
        ELSE IF ToUpper(toks[1].s) # "GET" THEN Failed("other")
        ELSE Decoded(GetCommand(<<toks[2]>>, toks[3].n, toks[4].n))

CommandsGo_NumUnmarshalBinary(type, data) ==
    LET toks == CommandsGo_Fscanln(data)
    IN  IF Len(toks) # 2 THEN Failed("other")
        ELSE IF toks[2].k # "n" THEN Failed("other")
        ELSE IF ~CommandsGo_IsInstruction(toks[1]) THEN Failed("other")
        ELSE IF ToUpper(toks[1].s) # type THEN Failed("other")
        ELSE Decoded([type |-> type, text |-> << >>, a |-> toks[2].n, b |-> 0])

CommandsGo_ErrUnmarshalBinary(data) ==
    LET toks == CommandsGo_Fscanln(data)
    IN  IF Len(toks) # 2 THEN Failed("other")
        ELSE IF ~CommandsGo_IsInstruction(toks[1]) THEN Failed("other")
        ELSE IF ToUpper(toks[1].s) # "ERR" THEN Failed("other")
        ELSE Decoded(ErrCommand(<<toks[2]>>))

\* DoneCommand.UnmarshalBinary: if parsedInstr != ERR { return error }.
CommandsGo_DoneUnmarshalBinary(data) ==
    LET toks == CommandsGo_Fscanln(data)
    IN  IF Len(toks) # 1 THEN Failed("other")
        ELSE IF ~CommandsGo_IsInstruction(toks[1]) THEN Failed("other")
        ELSE IF ToUpper(toks[1].s) # "ERR" THEN Failed("other")
        ELSE Decoded(DoneCommand)

CommandsGo_UnmarshalBinary(type, data) ==
    CASE type = "GET" -> CommandsGo_GetUnmarshalBinary(data)
      [] type \in {"OK", "RETR", "REST"} ->
            CommandsGo_NumUnmarshalBinary(type, data)
      [] type = "ERR" -> CommandsGo_ErrUnmarshalBinary(data)
      [] OTHER -> CommandsGo_DoneUnmarshalBinary(data)

\* UnmarshalCommand: fmt.Fscan reads the first token (newlines count as
\* space); only GET has a case, every other instruction is "unknown command".
CommandsGo_UnmarshalCommand(data) ==
    LET toks == Fields(data)
    IN  IF Len(toks) = 0 THEN Failed("other")
        ELSE IF ~CommandsGo_IsInstruction(toks[1]) THEN Failed("other")
        ELSE IF ToUpper(toks[1].s) # "GET" THEN Failed("other")
        ELSE CommandsGo_GetUnmarshalBinary(data)

\* ---- the codec as a state machine: one value or line, encoded / decoded

\* The two source variants of package common.
Variants == {"part_000", "commands.go"}

UnmarshalCommand(v, data) ==
    IF v = "part_000" THEN Part000_UnmarshalCommand(data)
    ELSE CommandsGo_UnmarshalCommand(data)

UnmarshalBinary(v, type, data) ==
    IF v = "part_000" THEN Part000_UnmarshalBinary(type, data)
    ELSE CommandsGo_UnmarshalBinary(type, data)

FileTexts == {<<W("a")>>, <<W("my"), SP, W("file")>>}
MsgTexts == {<<W("oops")>>, <<W("not"), SP, W("found")>>}

\* Command values within the declared bounds.
Values ==
    {GetCommand(f, bs, port) : f \in FileTexts, bs \in {1, 1024},
                               port \in {1, MaxPort}}
        \cup {OkCommand(n) : n \in {0, 7}}
        \cup {RetrCommand(n) : n \in {0, 5}}
        \cup {RestCommand(n) : n \in {0, 5}}
        \cup {ErrCommand(m) : m \in MsgTexts}
        \cup {DoneCommand}

GetLine(name, bs, port) ==
    <<W("GET"), SP>> \o name \o <<SP>> \o bs \o <<SP>> \o port \o <<NL>>

\* GET lines outside the documented bounds.
BadGetLines ==
    {GetLine(<<W("a")>>, <<Num(0)>>, <<Num(8080)>>),
     GetLine(<<W("a")>>, <<Num(1024)>>, <<Num(0)>>),
     GetLine(<<W("a")>>, <<Num(1024)>>, <<Num(MaxPort + 1)>>),
     GetLine(<< >>, <<Num(1024)>>, <<Num(8080)>>),
     <<W("GET"), SP, W("a"), SP, Num(1024), NL>>,
     GetLine(<<W("a")>>, <<Num(1024)>>, <<Num(8080), SP, Num(1)>>)}

\* ERR lines with an empty or whitespace-only message.
BadErrLines == {<<W("ERR"), NL>>, <<W("ERR"), SP, SP, SP, NL>>}

\* Lines without a known instruction, empty and blank input.
UnknownLines == {<<W("BOGUS"), NL>>, <<W("BOGUS"), SP, Num(1), NL>>}
BlankLines == {<< >>, <<SP, SP, SP, NL>>}

\* Other well-formed input: lower-case instruction, surrounding spaces,
\* non-numeric field.
OtherLines ==
    {<<W("get"), SP, W("a"), SP, Num(1024), SP, Num(8080), NL>>,
     <<SP, W("DONE"), SP, NL>>,
     <<W("GET"), SP, W("a"), SP, W("abc"), SP, Num(8080), NL>>,
     <<W("GET"), NL>>, <<W("OK"), NL>>}

Lines == BadGetLines \cup BadErrLines \cup UnknownLines \cup BlankLines
            \cup OtherLines

CodecInit ==
    /\ listen = OpenListener
    /\ registry = [a \in IPs |-> 0]
    /\ ts = [s \in Ids |-> NoState]
    /\ task = [t \in Ids |-> NoTask]
    /\ sess = [c \in Conns |-> NoSession]
    /\ nextId = 0
    /\ ncmd = 0
    /\ \E v \in Variants :
          \/ \E c \in Values :
                wire = [NoWire EXCEPT !.variant = v, !.phase = "value",
                                      !.value = c]
          \/ \E l \in Lines :
                wire = [NoWire EXCEPT !.variant = v, !.phase = "line",
                                      !.line = l]

\* c.MarshalBinary()
Marshal ==
    /\ wire.phase = "value"
    /\ wire' = [wire EXCEPT !.phase = "line",
                            !.line = MarshalBinary(wire.value)]
    /\ UNCHANGED <<registry, ts, task, sess, nextId, ncmd, listen>>

\* common.UnmarshalCommand(line)
Unmarshal ==
    /\ wire.phase = "line"
    /\ wire' = [wire EXCEPT !.phase = "done", !.as = "any",
                            !.result = UnmarshalCommand(wire.variant, wire.line)]
    /\ UNCHANGED <<registry, ts, task, sess, nextId, ncmd, listen>>

\* var cmd T; cmd.UnmarshalBinary(line), for one of the six variants T
UnmarshalAs(type) ==
    /\ wire.phase = "line"
    /\ wire' = [wire EXCEPT !.phase = "done", !.as = type,
                            !.result = UnmarshalBinary(wire.variant, type,
                                                       wire.line)]
    /\ UNCHANGED <<registry, ts, task, sess, nextId, ncmd, listen>>

\* handleCommands / handleCommand / handleGetCommand for a line that
\* UnmarshalCommand decoded to a GET of an existing file: OK is written and
\* the goroutine calls createTransmissionState(clientIP, cmd) with the
\* decoded command unchanged.
ServeGet ==
    /\ wire.phase = "done"
    /\ wire.as = "any"
    /\ wire.result.ok
    /\ wire.result.cmd.type = "GET"
    /\ wire' = [wire EXCEPT !.phase = "create"]
    /\ UNCHANGED <<registry, ts, task, sess, nextId, ncmd, listen>>

\* totalBlocks := (fileSize + cmd.Blocksize - 1) / cmd.Blocksize panics with
\* an integer divide by zero when Blocksize is 0.
DivideByZero(blocksize) == blocksize = 0

\* Outcomes of net.DialUDP for Port: int(cmd.UdpPort): a port above 65535
\* cannot be put into a socket address; port 0 may or may not be refused.
DialOutcomes(port) ==
    IF port > MaxPort THEN {"dialfail"}
    ELSE IF port = 0 THEN {"dialfail", "created"}
    ELSE {"created"}

\* createTransmissionState with the decoded GET: the block count division,
\* then DialUDP, then the new state.
CreateState ==
    /\ wire.phase = "create"
    /\ \E outcome \in DialOutcomes(wire.result.cmd.b) :
          wire' = [wire EXCEPT !.phase =
                      IF DivideByZero(wire.result.cmd.a) THEN "panic"
                      ELSE outcome]
    /\ UNCHANGED <<registry, ts, task, sess, nextId, ncmd, listen>>

CodecNext ==
    \/ Marshal
    \/ Unmarshal
    \/ \E type \in Instructions : UnmarshalAs(type)
    \/ ServeGet
    \/ CreateState

CodecSpec == CodecInit /\ [][CodecNext]_vars

\* ---------------------------------------------------------------- listener

\* What Accept returns on a closed listener: net.ErrClosed itself (a
\* net.Listener that hands out the sentinel), or the *net.OpError that wraps
\* it (net.TCPListener, the listener of the server binary and of the tests).
ClosedErrors == {"ErrClosed", "OpErrorErrClosed"}

\* Listen: if err == net.ErrClosed (a comparison of interface values).
IsErrClosed(e) == e = "ErrClosed"

\* Somebody closes the listener (the shutdown path, the tests' cleanup).
CloseListener ==
    /\ listen.open
    /\ \E e \in ClosedErrors :
          listen' = [listen EXCEPT !.open = FALSE, !.err = e]
    /\ UNCHANGED <<registry, ts, task, sess, nextId, ncmd, wire>>

\* Listen: Accept fails on the open listener (for instance EMFILE); the
\* error is logged and the loop continues.
AcceptFails ==
    /\ listen.open /\ listen.pc = "accept"
    /\ listen' = [listen EXCEPT !.logged = TRUE]
    /\ UNCHANGED <<registry, ts, task, sess, nextId, ncmd, wire>>

\* Listen: Accept fails because the listener is closed; Listen returns nil
\* when the error is net.ErrClosed, otherwise logs it and continues.
AcceptClosed ==
    /\ ~listen.open /\ listen.pc = "accept"
    /\ listen' = IF IsErrClosed(listen.err)
                 THEN [listen EXCEPT !.closedSeen = TRUE, !.pc = "returned"]
                 ELSE [listen EXCEPT !.closedSeen = TRUE, !.logged = TRUE]
    /\ UNCHANGED <<registry, ts, task, sess, nextId, ncmd, wire>>

\* The run in which a single client connects: the same steps as Next, taken
\* by connection 1 and by the streaming tasks of its GETs.
OneClient == {1}

OneClientNext ==
    \/ \E c \in OneClient : Accept(c)
    \/ \E c \in OneClient : HandleGet(c)
    \/ \E c \in OneClient : HandleGetSpawn(c)
    \/ \E c \in OneClient : HandleLookup(c)
    \/ \E c \in OneClient : RetrLockRead(c)
    \/ \E c \in OneClient : RetrSend(c)
    \/ \E c \in OneClient : RestLockSeek(c)
    \/ \E c \in OneClient : RestRead(c)
    \/ \E c \in OneClient : RestSend(c)
    \/ \E c \in OneClient : HandleDone(c)
    \/ \E c \in OneClient : HandleBadLine(c)
    \/ \E c \in OneClient : HandleUnsupported(c)
    \/ \E c \in OneClient : Disconnect(c)
    \/ \E t \in Ids : TaskCreate(t)
    \/ \E t \in Ids : TaskCreateFails(t)
    \/ \E t \in Ids : TaskLockRead(t)
    \/ \E t \in Ids : TaskSend(t)

FairSpec == Init /\ [][OneClientNext]_vars /\ Fairness

\* The single-client run in which the listener can also fail and be closed
\* (in Spec and FairSpec it stays open).
ListenNext ==
    \/ OneClientNext
    \/ CloseListener
    \/ AcceptFails
    \/ AcceptClosed

ListenSpec == Init /\ [][ListenNext]_vars


\* ------------------------------------------------------ claims: vocabulary

\* ceil(S / B) as the specification states it.
CeilDiv(S, B) == IF S % B = 0 THEN S \div B ELSE (S \div B) + 1

\* The bytes of block i of file f for block size bs: offset i * bs, up to bs
\* bytes, fewer for the last block.
Block(f, bs, i) == SubSeq(Files[f], i * bs + 1, Min((i + 1) * bs, Len(Files[f])))

RECURSIVE Payloads(_)
Payloads(log) ==
    IF log = << >> THEN << >> ELSE log[1].data \o Payloads(Tail(log))

\* The datagrams the streaming task of state s wrote to its UDP sender.
TaskLog(s) == SelectSeq(ts[s].udp, LAMBDA p : p.by = "task")

Open(s) == ts[s].fileOpen /\ ts[s].udpOpen

\* Session c is the only accepted connection of its client IP.
Alone(c) ==
    \A d \in Conns \ {c} : sess[d].pc = "init" \/ sess[d].ip # sess[c].ip

\* Session c is back at its read loop and its last command was op.
After(c, op) == sess[c].pc = "read" /\ sess[c].cmd.op = op

NoActiveReply == <<ErrReply("No active transmission")>>

\* ------------------------------------------------------------------ claims

\* C1: a streaming task that ran to its end on a state no RETR, REST, DONE
\* or disconnect touched while it ran has emitted exactly ceil(S/B)
\* datagrams, with index prefixes 0, 1, ..., ceil(S/B)-1 in that order, whose
\* payloads concatenate to the file's contents.
C1_FullRun ==
    \A t \in Ids :
        (task[t].pc = "done" /\ ts[t].made /\ ~ts[t].disturbed) =>
            LET f == ts[t].filename
                n == CeilDiv(Len(Files[f]), ts[t].blockSize)
                log == TaskLog(t)
            IN  /\ Len(log) = n
                /\ \A k \in 1 .. Len(log) : log[k].idx = k - 1
                /\ Payloads(log) = Files[f]

C1_Witness ==
    \E t \in Ids :
        /\ task[t].pc = "done" /\ ts[t].made /\ ~ts[t].disturbed
        /\ ts[t].filename = "f3"
        /\ Len(TaskLog(t)) = 2

\* C2: once the only session of a client IP has processed DONE, or has
\* returned after its connection closed, the registry has no entry for that
\* IP and every transmission state its GETs created is closed.
C2_CleanAfterTeardown ==
    \A c \in Conns :
        (Alone(c) /\ (sess[c].pc = "closed" \/ After(c, "DONE"))) =>
            /\ registry[sess[c].ip] = 0
            /\ \A t \in Ids :
                  (task[t].conn = c /\ ts[t].made) => (~ts[t].fileOpen /\ ~ts[t].udpOpen)

\* C3: there are never two transmission states of one client IP that both
\* still hold an open file handle and UDP sender.
C3_OneStatePerIP ==
    \A s1, s2 \in Ids :
        (s1 # s2 /\ ts[s1].made /\ ts[s2].made /\ ts[s1].ip = ts[s2].ip) =>
            ~(Open(s1) /\ Open(s2))

\* C4: when createTransmissionState stores a state for a client IP that
\* already has a registry entry, the new state replaces it and the displaced
\* state's file handle and UDP sender are closed.
C4_ReplaceCloses ==
    [][\A t \in Ids :
          (task[t].pc = "create" /\ ts'[t].made /\ registry[task[t].ip] # 0) =>
              /\ registry'[task[t].ip] = t
              /\ ~ts'[registry[task[t].ip]].fileOpen
              /\ ~ts'[registry[task[t].ip]].udpOpen]_vars

\* C5: a RETR or REST that the only session of a client IP reads right after
\* a GET it answered with OK is never answered "No active transmission".
C5_ActiveAfterOk ==
    [][\A c \in Conns :
          (/\ Alone(c)
           /\ After(c, "GET")
           /\ Len(sess[c].reply) = 1 /\ sess[c].reply[1].kind = "OK"
           /\ sess'[c].cmd.op \in {"RETR", "REST"}) =>
              sess'[c].reply # NoActiveReply]_vars

\* C6: whenever the streaming task of a GET has sent a datagram, the OK reply
\* of that GET had been written and flushed before the task was started.
C6_OkBeforeData ==
    \A t \in Ids : TaskLog(t) # << >> => task[t].okFlushed

C6_Witness ==
    \E t \in Ids : TaskLog(t) # << >> /\ task[t].okFlushed

\* C7: a session that reads a RETR or REST while the registry has no entry
\* for its client IP replies ERR No active transmission, sends no datagram
\* and leaves the registry and every transmission state unchanged.
C7_NoActive ==
    [][\A c \in Conns :
          (/\ CanRead(c)
           /\ sess'[c] # sess[c]
           /\ sess'[c].cmd.op \in {"RETR", "REST"}
           /\ registry[sess[c].ip] = 0) =>
              /\ sess'[c].reply = NoActiveReply
              /\ sess'[c].hsent = << >>
              /\ sess'[c].pc = "read"
              /\ UNCHANGED <<registry, ts>>]_vars

C7_Witness ==
    \E c \in Conns :
        /\ (After(c, "RETR") \/ After(c, "REST"))
        /\ sess[c].reply = NoActiveReply
        /\ registry[sess[c].ip] = 0
        /\ \E t \in Ids : ts[t].made /\ ts[t].ip = sess[c].ip


\* C8: a RETR i with i < totalBlocks that found a transmission and returned
\* without error has sent exactly one datagram, with index prefix i and the
\* bytes of file block i as payload; when no other session shares the client
\* IP it always returns without error, i is marked in sentBlocks and the
\* transmission is still open.
C8_Retransmit ==
    \A c \in Conns :
        (After(c, "RETR") /\ sess[c].cur # 0
            /\ sess[c].cmd.blockIndex < ts[sess[c].cur].totalBlocks) =>
            LET s == sess[c].cur
                i == sess[c].cmd.blockIndex
                pkt == BlockPacket(i, Block(ts[s].filename, ts[s].blockSize, i),
                                   "retr")
            IN  /\ sess[c].reply = << >> => sess[c].hsent = <<pkt>>
                /\ Alone(c) => /\ sess[c].reply = << >>
                               /\ i \in ts[s].sentBlocks
                               /\ Open(s)

C8_Witness ==
    \E c \in Conns :
        /\ After(c, "RETR") /\ sess[c].cur # 0
        /\ sess[c].cmd.blockIndex = 1
        /\ sess[c].reply = << >>
        /\ Len(sess[c].hsent) = 1
        /\ 1 \in ts[sess[c].cur].sentBlocks

\* C9: a REST i with i < totalBlocks that found a transmission and returned
\* without error has sent exactly totalBlocks - i datagrams from the handler,
\* with index prefixes i, i+1, ..., totalBlocks-1 in ascending order, each
\* carrying the bytes of the block it is labelled with; when no other session
\* shares the client IP it always returns without error.
C9_Restart ==
    \A c \in Conns :
        (After(c, "REST") /\ sess[c].cur # 0
            /\ sess[c].cmd.blockIndex < ts[sess[c].cur].totalBlocks) =>
            LET s == sess[c].cur
                i == sess[c].cmd.blockIndex
                n == ts[s].totalBlocks - i
            IN  /\ sess[c].reply = << >> =>
                      sess[c].hsent =
                          [k \in 1 .. n |->
                              BlockPacket(i + k - 1,
                                  Block(ts[s].filename, ts[s].blockSize, i + k - 1),
                                  "rest")]
                /\ Alone(c) => sess[c].reply = << >>

C9_Witness ==
    \E c \in Conns :
        /\ After(c, "REST") /\ sess[c].cur # 0
        /\ sess[c].cmd.blockIndex = 0
        /\ sess[c].reply = << >>
        /\ Len(sess[c].hsent) = 2

\* C10: the step of REST i that takes the state lock removes every index >= i
\* from sentBlocks and leaves the indices < i as they were; when the handler
\* returns without error sentBlocks is those kept indices plus all of
\* i..totalBlocks-1 (so 0..totalBlocks-1 when it held all of them before).
C10_RestSentBlocks ==
    [][\A c \in Conns :
          LET s == sess[c].cur
              i == sess[c].cmd.blockIndex
          IN  /\ (sess[c].pc = "rest_lock" /\ sess'[c].pc = "rest_read") =>
                    ts'[s].sentBlocks = {j \in ts[s].sentBlocks : j < i}
              /\ (sess[c].pc = "rest_send" /\ sess'[c].pc = "read"
                     /\ sess'[c].reply = << >>) =>
                    /\ ts'[s].sentBlocks =
                          {j \in sess[c].sent0 : j < i}
                              \cup (i .. ts[s].totalBlocks - 1)
                    /\ sess[c].sent0 = 0 .. ts[s].totalBlocks - 1 =>
                          ts'[s].sentBlocks = 0 .. ts[s].totalBlocks - 1]_vars

C10_Witness ==
    \E c \in Conns :
        /\ After(c, "REST") /\ sess[c].cur # 0
        /\ sess[c].cmd.blockIndex = 1
        /\ sess[c].reply = << >>
        /\ sess[c].sent0 = {0, 1}
        /\ ts[sess[c].cur].sentBlocks = {0, 1}

\* The step is session c reading a new command line.
Reads(c) == CanRead(c) /\ sess'[c] # sess[c] /\ ncmd' = ncmd + 1

OutOfRangeReply(op) ==
    <<ErrReply(IF op = "RETR" THEN "Retransmission failed: out of range"
                              ELSE "Restart failed: out of range")>>

\* C11: a RETR or REST whose block index is >= totalBlocks is answered with
\* an ERR carrying the out-of-range diagnostic, sends no datagram, leaves the
\* state lock free, and changes neither sentBlocks, the file position, any
\* other field of a transmission state, nor the registry.
C11_OutOfRange ==
    [][\A c \in Conns :
          (/\ sess[c].pc \in {"retr_lock", "rest_lock"}
           /\ sess'[c] # sess[c]
           /\ sess[c].cmd.blockIndex >= ts[sess[c].cur].totalBlocks) =>
              /\ sess'[c].pc = "read"
              /\ sess'[c].reply = OutOfRangeReply(sess[c].cmd.op)
              /\ sess'[c].hsent = << >>
              /\ ts'[sess[c].cur].mutex = NoHolder
              /\ UNCHANGED <<registry, ts>>]_vars

C11_Witness ==
    \E c \in Conns :
        /\ (After(c, "RETR") \/ After(c, "REST"))
        /\ sess[c].cur # 0
        /\ ts[sess[c].cur].totalBlocks = 2
        /\ sess[c].cmd.blockIndex = 2
        /\ sess[c].reply = OutOfRangeReply(sess[c].cmd.op)
        /\ sess[c].hsent = << >>

\* C12: a GET naming a file that cannot be opened is answered with an ERR
\* carrying the file error; the step creates no transmission state, inserts
\* no registry entry, spawns no streaming task and sends no datagram, and the
\* session is back at its read loop (it never reaches the spawn).
C12_GetMissingFile ==
    [][\A c \in Conns :
          /\ (Reads(c) /\ sess'[c].cmd.op = "GET"
                 /\ sess'[c].cmd.filename = NoFile) =>
                /\ sess'[c].reply = <<ErrReply("get file size")>>
                /\ sess'[c].pc = "read"
                /\ sess'[c].hsent = << >>
                /\ UNCHANGED <<registry, ts, task, nextId>>
          /\ (sess[c].pc = "get_spawn") => sess[c].cmd.filename # NoFile]_vars

C12_Witness ==
    \E c \in Conns :
        /\ After(c, "GET")
        /\ sess[c].cmd.filename = NoFile
        /\ sess[c].reply = <<ErrReply("get file size")>>
        /\ nextId = 0

\* C13: a streaming task whose createTransmissionState failed (DialUDP or
\* Stat) belongs to a GET that was not answered OK, and has created no
\* transmission state.
C13_CreateFailureReported ==
    \A t \in Ids :
        task[t].result = "create failed" =>
            /\ ~task[t].okFlushed
            /\ ~ts[t].made

\* C14: every GET line is answered with exactly one reply line, which is
\* either OK <filesize of the named file> or an ERR.
C14_OneReplyPerGet ==
    \A c \in Conns :
        (sess[c].cmd.op = "GET" /\ sess[c].pc \in {"get_spawn", "read"}) =>
            /\ Len(sess[c].reply) = 1
            /\ IF sess[c].cmd.filename \in FileNames
               THEN sess[c].reply[1] = OkReply(Len(Files[sess[c].cmd.filename]))
               ELSE sess[c].reply[1].kind = "ERR"

C14_Witness ==
    \E c \in Conns :
        /\ After(c, "GET")
        /\ sess[c].cur # 0
        /\ task[sess[c].cur].result = "completed"
        /\ sess[c].reply = <<OkReply(3)>>

\* C15: a RETR that sent its datagram, a REST that sent all of its
\* totalBlocks - i datagrams and every DONE leave no reply on the TCP
\* connection; an OK line is written only in reply to a GET.
C15_SilentSuccess ==
    \A c \in Conns :
        /\ After(c, "DONE") => sess[c].reply = << >>
        /\ (After(c, "RETR") /\ sess[c].hsent # << >>) => sess[c].reply = << >>
        /\ (After(c, "REST") /\ sess[c].cur # 0
               /\ sess[c].cmd.blockIndex < ts[sess[c].cur].totalBlocks
               /\ Len(sess[c].hsent) =
                     ts[sess[c].cur].totalBlocks - sess[c].cmd.blockIndex) =>
              sess[c].reply = << >>
        /\ \A k \in 1 .. Len(sess[c].reply) :
              sess[c].reply[k].kind = "OK" => sess[c].cmd.op = "GET"

C15_Witness ==
    \E c \in Conns :
        /\ After(c, "DONE")
        /\ sess[c].reply = << >>
        /\ \E t \in Ids : task[t].conn = c /\ ts[t].made /\ ~Open(t)

\* C16: a line that fails to decode is answered with exactly one ERR reply,
\* changes neither the registry nor any transmission state or task, and
\* leaves the session at its read loop; a GET for an existing file read next
\* on that connection is answered OK and reaches the spawn.
C16_BadLine ==
    [][\A c \in Conns :
          /\ (Reads(c) /\ sess'[c].cmd.op \in BadLines) =>
                /\ sess'[c].reply = <<ErrReply("parse command")>>
                /\ sess'[c].pc = "read"
                /\ UNCHANGED <<registry, ts, task, nextId>>
          /\ (Reads(c) /\ sess[c].cmd.op \in BadLines
                 /\ sess'[c].cmd.op = "GET"
                 /\ sess'[c].cmd.filename \in FileNames) =>
                /\ sess'[c].reply =
                      <<OkReply(Len(Files[sess'[c].cmd.filename]))>>
                /\ sess'[c].pc = "get_spawn"]_vars

C16_Witness ==
    \E c \in Conns :
        /\ After(c, "BOGUS")
        /\ sess[c].reply = <<ErrReply("parse command")>>
        /\ registry[sess[c].ip] # 0
        /\ Open(registry[sess[c].ip])

\* C17: a decoded command that is not GET, RETR, REST or DONE (OK or ERR) is
\* answered with an ERR "unsupported command type", changes neither the
\* registry nor any transmission state or task, and leaves the session at
\* its read loop.
C17_Unsupported ==
    [][\A c \in Conns :
          (Reads(c) /\ sess'[c].cmd.op \in UnsupportedOps) =>
              /\ sess'[c].reply =
                    <<ErrReply("Command failed: unsupported command type")>>
              /\ sess'[c].pc = "read"
              /\ UNCHANGED <<registry, ts, task, nextId>>]_vars

C17_Witness ==
    \E c \in Conns :
        /\ sess[c].pc = "read"
        /\ sess[c].cmd.op \in UnsupportedOps
        /\ sess[c].reply = <<ErrReply("Command failed: unsupported command type")>>
        /\ registry[sess[c].ip] # 0
        /\ Open(registry[sess[c].ip])

\* C18: when the only commands read so far are successful GETs and two
\* connections requested different files, each of the two streaming tasks
\* that has finished has sent exactly ceil(S/B) datagrams, indexed 0, 1, ...
\* in order, whose payloads are the contents of the file its own connection
\* requested, whatever the order of connects, finishes and disconnects (a
\* task counts when its own connection is still open, i.e. its client has
\* not hung up on its own transfer).
C18_ConcurrentTransfers ==
    \A t1, t2 \in Ids :
        (/\ t1 # t2
         /\ ncmd = nextId
         /\ task[t1].pc = "done" /\ task[t2].pc = "done"
         /\ ts[t1].made /\ ts[t2].made
         /\ task[t1].conn # task[t2].conn
         /\ task[t1].filename # task[t2].filename) =>
            \A t \in {t1, t2} :
                LET log == TaskLog(t)
                    f == task[t].filename
                IN  sess[task[t].conn].pc # "closed" =>
                    /\ Len(log) = CeilDiv(Len(Files[f]), task[t].blockSize)
                    /\ \A k \in 1 .. Len(log) : log[k].idx = k - 1
                    /\ Payloads(log) = Files[f]

\* A transmission state that removeTransmissionState has closed.
Removed(t) == ts[t].made /\ ~ts[t].udpOpen

\* C19: once removeTransmissionState has removed and closed a transmission,
\* its streaming task eventually terminates, and from the removal on no
\* step of the task adds a datagram to that transmission's UDP sender.
C19_RemovedTaskStops ==
    /\ \A t \in Ids : Removed(t) ~> (task[t].pc = "done")
    /\ [][\A t \in Ids :
             Removed(t) => TaskLog(t)' = TaskLog(t)]_vars

C19_Witness ==
    \E t \in Ids :
        /\ Removed(t)
        /\ task[t].pc = "done"
        /\ task[t].result \in {"read failed", "send failed"}
        /\ Len(TaskLog(t)) < ts[t].totalBlocks

\* The step is the teardown of session c: its DONE or its disconnect.
Teardown(c) ==
    \/ Reads(c) /\ sess'[c].cmd.op = "DONE"
    \/ sess[c].pc = "read" /\ sess'[c].pc = "closed"

\* C20: removeTransmissionState called for a client IP that has no registry
\* entry (never created, or already removed by an earlier call) changes
\* nothing; called for an IP with an entry it closes a state that was still
\* open and deletes the entry, so that the resources of one state are closed
\* at most once (a registered state is always open).
C20_RemoveIdempotent ==
    [][\A c \in Conns :
          LET a == sess[c].ip
              s == registry[a]
          IN  /\ (Teardown(c) /\ s = 0) => UNCHANGED <<registry, ts>>
              /\ (Teardown(c) /\ s # 0) =>
                    /\ Open(s)
                    /\ ~ts'[s].fileOpen /\ ~ts'[s].udpOpen
                    /\ registry'[a] = 0
                    /\ \A u \in Ids \ {s} : ts'[u] = ts[u]
              /\ \A b \in IPs : registry[b] # 0 => Open(registry[b])]_vars

C20_Witness ==
    /\ sess[1].pc = "closed"
    /\ After(2, "DONE")
    /\ sess[1].ip = sess[2].ip
    /\ nextId = 1 /\ ncmd = 2
    /\ ts[1].made /\ ~Open(1)
    /\ registry[sess[1].ip] = 0

\* C21: once Accept has reported that the listener is closed, Listen has
\* left its accept loop and returned nil (it does not log the closure as an
\* accept failure and go on accepting).
C21_ClosedListenerStops ==
    listen.closedSeen => listen.pc = "returned"

\* Session c is inside the handler of a control command.
InHandler(c) ==
    sess[c].pc \in {"get_spawn", "retr_lock", "retr_send", "rest_lock",
                    "rest_read", "rest_send"}

\* C22: the server is never inside the handlers of two control commands of
\* the same client IP at the same time.
C22_SerializedPerIP ==
    \A c, d \in Conns :
        (c # d /\ sess[c].ip = sess[d].ip) => ~(InHandler(c) /\ InHandler(d))

\* C28 as claimed: no session ever performs a UDP block send while it
\* handles a control command.
C28_SessionNeverSends ==
    \A c \in Conns : sess[c].hsent = << >>

\* C28 as amended: the steps a session takes while handling GET or DONE
\* send no datagram, and the GET handler returns to the read loop as soon as
\* it has started the streaming task, which is still to run; only RETR and
\* REST handlers send datagrams from the session.
C28_GetDoneDoNotSend ==
    [][\A c \in Conns :
          /\ (sess'[c] # sess[c] /\ sess'[c].cmd.op \in {"GET", "DONE"}) =>
                /\ \A s \in Ids : ts'[s].udp = ts[s].udp
                /\ sess'[c].hsent = << >>
          /\ (sess[c].pc = "get_spawn" /\ sess'[c] # sess[c]) =>
                /\ sess'[c].pc = "read"
                /\ task'[sess'[c].cur].pc = "create"
          /\ sess'[c].hsent # << >> => sess'[c].cmd.op \in {"RETR", "REST"}]_vars

C28_Witness ==
    \E c \in Conns, t \in Ids :
        /\ After(c, "DONE")
        /\ task[t].conn = c
        /\ task[t].pc = "send"
        /\ ts[t].mutex = TaskHolder(t)
        /\ TaskLog(t) # << >>

\* The parties inside a critical section of the lock of state s: its
\* streaming task between Read and Unlock, and the sessions inside
\* retransmitBlock / restartFromBlock on s after their Lock.
Holders(s) ==
    {TaskHolder(t) : t \in {u \in Ids : u = s /\ task[u].pc = "send"}}
        \cup {SessHolder(c) :
                c \in {d \in Conns :
                         /\ sess[d].cur = s
                         /\ sess[d].pc \in {"retr_send", "rest_read",
                                            "rest_send"}}}

\* C29: at every instant at most one of the streaming task's block step
\* and the RETR / REST handler bodies is inside the lock of a transmission
\* state, the lock records exactly that party, and every datagram is sent
\* by a step whose party holds the lock.
C29_SendsSerialized ==
    /\ [](\A s \in Ids :
             /\ Cardinality(Holders(s)) <= 1
             /\ \A h \in Holders(s) : ts[s].mutex = h
             /\ Holders(s) = {} => ts[s].mutex = NoHolder)
    /\ [][\A s \in Ids :
             ts'[s].udp # ts[s].udp =>
                 /\ ts[s].mutex # NoHolder
                 /\ ts[s].mutex \in Holders(s)
                 /\ ts'[s].udp = Append(ts[s].udp, ts'[s].udp[Len(ts'[s].udp)])
                 /\ ts'[s].udp[Len(ts'[s].udp)].by =
                       (IF ts[s].mutex.kind = "task" THEN "task"
                        ELSE IF sess[ts[s].mutex.id].cmd.op = "RETR"
                        THEN "retr" ELSE "rest")]_vars

C29_Witness ==
    \E c \in Conns, t \in Ids :
        /\ sess[c].cur = t
        /\ sess[c].pc = "rest_send"
        /\ ts[t].mutex = SessHolder(c)
        /\ task[t].pc = "loop"

\* C30: the file handle and the UDP sender of a transmission state are
\* closed only by a step that can hold that state's lock: no other party is
\* inside the lock when they are closed.
C30_CloseUnderLock ==
    [][\A s \in Ids :
          (ts[s].made /\ Open(s) /\ ~Open(s)') => ts[s].mutex = NoHolder]_vars

\* ------------------------------------------------------- wire codec claims

\* The decode just performed was applied to the encoding of a command value
\* by the decoder that handles its variant (the dispatcher or the typed one).
DecodedOwnEncoding ==
    /\ wire.phase = "done"
    /\ wire.value # NoValue
    /\ wire.as \in {"any", wire.value.type}

ProtocolErrors == {"parse", "validation", "invalid_format"}

\* C23: decoding the bytes produced by encoding a command value within the
\* declared bounds succeeds and yields a value equal to the original.
C23_RoundTrip ==
    DecodedOwnEncoding =>
        wire.result.ok /\ wire.result.cmd = wire.value

\* C24: decoding a GET line with blocksize 0, port 0, port > 65535, an empty
\* filename, a missing or an extra field, or an ERR line with an empty or
\* whitespace-only message, never succeeds and yields an error of category
\* parse or validation.
C24_ValidationComplete ==
    (/\ wire.phase = "done"
     /\ \/ wire.line \in BadGetLines /\ wire.as \in {"any", "GET"}
        \/ wire.line \in BadErrLines /\ wire.as \in {"any", "ERR"})
        => ~wire.result.ok /\ wire.result.err \in {"parse", "validation"}

\* C25: decoding a GET line whose filename contains spaces succeeds, with the
\* last two fields as blocksize and port and everything between as filename.
C25_FilenameWithSpaces ==
    (/\ wire.phase = "done"
     /\ wire.as \in {"any", "GET"}
     /\ \E bs \in {1, 1024}, port \in {1, MaxPort} :
           wire.line = GetLine(<<W("my"), SP, W("file")>>,
                               <<Num(bs)>>, <<Num(port)>>))
        => /\ wire.result.ok
           /\ wire.result.cmd.type = "GET"
           /\ wire.result.cmd.text = <<W("my"), SP, W("file")>>
           /\ wire.result.cmd.a = wire.line[Len(wire.line) - 3].n
           /\ wire.result.cmd.b = wire.line[Len(wire.line) - 1].n

\* C26: UnmarshalCommand decodes a well-formed line of each of the six
\* instructions to the matching variant, answers an unknown first token with
\* a parse error and empty or whitespace-only input with an invalid_format
\* protocol error.
C26_DispatchAll ==
    (wire.phase = "done" /\ wire.as = "any") =>
        /\ (wire.value # NoValue /\ Len(wire.value.text) <= 1)
              => wire.result.ok /\ wire.result.cmd.type = wire.value.type
        /\ wire.line \in UnknownLines
              => ~wire.result.ok /\ wire.result.err = "parse"
        /\ wire.line \in BlankLines
              => ~wire.result.ok /\ wire.result.err = "invalid_format"

\* C27: the DONE decoder accepts the encoding of a DoneCommand and rejects a
\* line whose instruction is any other token, ERR included, with a protocol
\* error.
C27_DoneDecoder ==
    (wire.phase = "done" /\ wire.as = "DONE") =>
        /\ wire.value = DoneCommand
              => wire.result.ok /\ wire.result.cmd = DoneCommand
        /\ (\/ wire.value.type \in Instructions \ {"DONE"}
            \/ wire.line \in BadErrLines \cup UnknownLines)
              => ~wire.result.ok /\ wire.result.err \in ProtocolErrors

\* ------------------------------------------------- streaming under handlers

\* C31: the block-index prefixes of the datagrams one streaming task emits
\* are strictly ascending, whatever RETR and REST handlers send in between.
C31_AscendingIndexes ==
    \A t \in Ids :
        \A i, j \in 1 .. Len(TaskLog(t)) :
            i < j => TaskLog(t)[i].idx < TaskLog(t)[j].idx

C31_Witness ==
    \E t \in Ids :
        \E i, j, k \in 1 .. Len(ts[t].udp) :
            /\ i < j /\ j < k
            /\ ts[t].udp[i].by = "task"
            /\ ts[t].udp[j].by \in {"retr", "rest"}
            /\ ts[t].udp[k].by = "task"

\* C32: the totalBlocks of every transmission state is the ceiling of
\* filesize / blockSize, for every block size from 1 to the largest word.
C32_TotalBlocksIsCeil ==
    \A s \in Ids :
        ts[s].made =>
            ts[s].totalBlocks = CeilDiv(FileSize(ts[s].filename), ts[s].blockSize)

NoDataReply == ErrReply("Retransmission failed: no data")

\* C33 as claimed: a RETR of a block whose read is short (fewer than
\* blockSize bytes) is answered with ERR no data to retransmit and sends no
\* datagram.
C33_ShortReadRejected ==
    \A c \in Conns :
        (/\ After(c, "RETR") /\ sess[c].cur # 0 /\ Alone(c)
         /\ sess[c].cmd.blockIndex < ts[sess[c].cur].totalBlocks
         /\ Len(Block(ts[sess[c].cur].filename, ts[sess[c].cur].blockSize,
                      sess[c].cmd.blockIndex)) < ts[sess[c].cur].blockSize)
            => sess[c].reply = <<NoDataReply>> /\ sess[c].hsent = << >>

\* C33: in a RETR of a block in range on an open file, a read of zero bytes
\* is answered with ERR no data to retransmit, sends no datagram and marks
\* nothing; a short read of at least one byte goes on to the send, which
\* emits one datagram with the bytes read and marks the block as sent.
C33_ShortReadSent ==
    [][\A c \in Conns :
          LET s == sess[c].cur
              i == sess[c].cmd.blockIndex
              data == Block(ts[s].filename, ts[s].blockSize, i)
          IN  /\ (/\ sess[c].pc = "retr_lock" /\ sess'[c] # sess[c]
                  /\ i < ts[s].totalBlocks /\ ts[s].fileOpen) =>
                     IF Len(data) = 0
                     THEN /\ sess'[c].pc = "read"
                          /\ sess'[c].reply = Append(sess[c].reply, NoDataReply)
                          /\ sess'[c].hsent = sess[c].hsent
                          /\ ts'[s].udp = ts[s].udp
                          /\ ts'[s].sentBlocks = ts[s].sentBlocks
                     ELSE /\ sess'[c].pc = "retr_send"
                          /\ sess'[c].buffer = data
                          /\ sess'[c].reply = sess[c].reply
              /\ (/\ sess[c].pc = "retr_send" /\ sess'[c] # sess[c]
                  /\ ts[s].udpOpen) =>
                     /\ ts'[s].udp =
                            Append(ts[s].udp,
                                   BlockPacket(i, sess[c].buffer, "retr"))
                     /\ i \in ts'[s].sentBlocks
                     /\ sess'[c].reply = sess[c].reply]_vars

C33_Witness ==
    \E c \in Conns :
        /\ After(c, "RETR") /\ sess[c].cur # 0
        /\ sess[c].reply = << >>
        /\ Len(sess[c].hsent) = 1
        /\ Len(sess[c].hsent[1].data) > 0
        /\ Len(sess[c].hsent[1].data) < ts[sess[c].cur].blockSize
        /\ sess[c].hsent[1].idx \in ts[sess[c].cur].sentBlocks

\* C34: every datagram written to the UDP sender of a transmission, by the
\* streaming task or by a RETR or REST handler, carries as payload exactly
\* the bytes of the file block named by its index prefix.
C34_PayloadMatchesIndex ==
    \A s \in Ids :
        \A k \in 1 .. Len(ts[s].udp) :
            ts[s].udp[k].data =
                Block(ts[s].filename, ts[s].blockSize, ts[s].udp[k].idx)

\* C35: a streaming task that ended without an I/O error, on a transmission
\* that has not been removed and that no handler is working on, whose
\* connection is still open, leaves every block index 0..totalBlocks-1 sent
\* and recorded in sentBlocks.
C35_AllBlocksSent ==
    \A t \in Ids :
        (/\ task[t].pc = "done" /\ task[t].result = "completed"
         /\ Open(t)
         /\ sess[task[t].conn].pc # "closed"
         /\ \A c \in Conns : sess[c].cur = t => ~InHandler(c))
            => /\ ts[t].sentBlocks = 0 .. ts[t].totalBlocks - 1
               /\ \A i \in 0 .. ts[t].totalBlocks - 1 :
                     \E k \in 1 .. Len(ts[t].udp) : ts[t].udp[k].idx = i

\* C36: the DONE or the disconnect of a session closes only a transmission
\* that a GET on the same connection started; it never closes one that
\* belongs to another connection that is still open.
C36_TeardownOwnOnly ==
    [][\A c \in Conns :
          Teardown(c) =>
              \A s \in Ids :
                  (ts[s].made /\ Open(s) /\ ~Open(s)') =>
                      \/ task[s].conn = c
                      \/ sess[task[s].conn].pc = "closed"]_vars

\* C37: every exit path releases the state lock (a task that has ended and a
\* session that is back at its read loop, or closed, hold none, and the lock
\* is free exactly when nobody is inside a locked section); a step that works
\* on the registry is taken by a party that holds no state lock; a streaming
\* task runs at most totalBlocks iterations and always terminates, and a
\* session inside a handler always gets back to reading its next command.
C37_NoDeadlock ==
    /\ [](\A s \in Ids :
             /\ (Holders(s) = {}) <=> (ts[s].mutex = NoHolder)
             /\ task[s].pc \in {"none", "create", "loop", "done"}
                   => ts[s].mutex # TaskHolder(s)
             /\ \A c \in Conns :
                   sess[c].pc \in {"init", "read", "closed"}
                       => ts[s].mutex # SessHolder(c)
             /\ task[s].blockIndex <= ts[s].totalBlocks
             /\ Len(TaskLog(s)) <= ts[s].totalBlocks)
    /\ [][/\ \A c \in Conns :
                (Teardown(c) \/ Reads(c)) =>
                    \A s \in Ids : ts[s].mutex # SessHolder(c)
          /\ \A t \in Ids :
                (task[t].pc = "create" /\ task'[t].pc # "create")
                    => \A s \in Ids : ts[s].mutex # TaskHolder(t)]_vars
    /\ \A t \in Ids : Running(t) ~> (task[t].pc = "done")
    /\ \A c \in Conns : InHandler(c) ~> (sess[c].pc = "read")

\* A RETR or REST handler waits for the lock the streaming task holds.
C37_Witness ==
    \E c \in Conns :
        /\ sess[c].pc \in {"retr_lock", "rest_lock"}
        /\ ts[sess[c].cur].mutex = TaskHolder(sess[c].cur)
        /\ task[sess[c].cur].pc = "send"

EmptyFile == "f0"

\* C39: a GET of an empty file is answered with OK 0; its transmission has
\* totalBlocks = 0, an empty sentBlocks set and no datagram, and its
\* streaming task has ended without sending; every RETR or REST that works
\* on it, index 0 included, is rejected as out of range without a datagram.
C39_EmptyFile ==
    /\ \A c \in Conns :
          (sess[c].cmd.op = "GET" /\ sess[c].cmd.filename = EmptyFile)
              => sess[c].reply = <<OkReply(0)>>
    /\ \A s \in Ids :
          (ts[s].made /\ ts[s].filename = EmptyFile) =>
              /\ ts[s].totalBlocks = 0
              /\ ts[s].udp = << >>
              /\ ts[s].sentBlocks = {}
              /\ task[s].pc = "done"
              /\ task[s].result = "completed"
    /\ \A c \in Conns : \A op \in {"RETR", "REST"} :
          (/\ After(c, op) /\ sess[c].cur # 0
           /\ ts[sess[c].cur].filename = EmptyFile)
              => /\ sess[c].reply = OutOfRangeReply(op)
                 /\ sess[c].hsent = << >>

C39_Witness ==
    \E c \in Conns :
        /\ After(c, "RETR") /\ sess[c].cur # 0
        /\ sess[c].cmd.blockIndex = 0
        /\ ts[sess[c].cur].filename = EmptyFile
        /\ task[sess[c].cur].okFlushed
        /\ sess[c].reply = OutOfRangeReply("RETR")

\* C40: createTransmissionState is never entered with a decoded GET whose
\* blocksize is 0 or whose UDP port is outside 1..65535, so the block count
\* division never divides by zero and every state created has a positive
\* block size and a port in range.
C40_CreateArgsValid ==
    /\ wire.phase # "panic"
    /\ wire.phase \in {"create", "created", "dialfail"} =>
          /\ wire.result.cmd.a > 0
          /\ wire.result.cmd.b \in 1 .. MaxPort

=============================================================================
